---- MODULE Spec2Model ----
(***************************************************************************)
(* Model of src/retractions/get_retraction_metadata.py: the date           *)
(* normaliser standardize_date, the citation partitioner count_citations,  *)
(* the best-effort fetch_citations, the encoding fallback chain of         *)
(* read_csv_robust and the pipeline of main.                               *)
(*                                                                         *)
(* Python values are records tagged by the field k.  A string is the       *)
(* sequence of its characters, so that str.split and string concatenation  *)
(* are computed and not assumed.                                           *)
(***************************************************************************)
EXTENDS Integers, Sequences, FiniteSets, TLC

VARIABLES pc, file, attempts, ret, df, dois, cites, fetchLog, output, exc,
          fn_arg, fn_target, fn_res

vars == <<pc, file, attempts, ret, df, dois, cites, fetchLog, output, exc,
          fn_arg, fn_target, fn_res>>

mainVars == <<pc, file, attempts, ret, df, dois, cites, fetchLog, output, exc>>

fnVars == <<fn_arg, fn_target, fn_res>>

(***************************************************************************)
(* Bounds of the model.                                                    *)
(***************************************************************************)
\* longest generated date string handed to standardize_date
MaxLen == 4

\* longest citation list handed to count_citations on its own
MaxCites == 3

\* most rows of the input table
MaxRows == 2

(***************************************************************************)
(* Values.                                                                 *)
(***************************************************************************)
NaN == [k |-> "nan"]

None == [k |-> "none"]

NaT == [k |-> "nat"]

Str(s) == [k |-> "str", s |-> s]

Date(y, m, d) == [k |-> "date", y |-> y, m |-> m, d |-> d]

Raise(e) == [k |-> "raise", exc |-> e]

Pending == [k |-> "pending"]

\* pd.isna on a scalar: NaN, None and NaT are missing, a string never is
isna(v) == v.k \in {"nan", "none", "nat"}

(***************************************************************************)
(* str.split('-'): the pieces between the separators; the empty string     *)
(* gives one empty piece, a trailing separator gives a trailing empty one. *)
(***************************************************************************)
RECURSIVE SplitFrom(_, _, _)
SplitFrom(s, i, cur) ==
    IF i > Len(s) THEN <<cur>>
    ELSE IF s[i] = "-" THEN <<cur>> \o SplitFrom(s, i + 1, <<>>)
    ELSE SplitFrom(s, i + 1, Append(cur, s[i]))

split(s) == SplitFrom(s, 1, <<>>)

\* standardize_date with every branch returning the year-month result
standardize_date_AlwaysAnchor(date_str) ==
    IF isna(date_str) THEN NaN
    ELSE LET parts == split(date_str.s) IN
         IF Len(parts) = 1 THEN NaN
         ELSE IF Len(parts) = 3 THEN Str(date_str.s \o <<"-", "0", "1">>)
         ELSE IF Len(parts) = 2 THEN Str(date_str.s \o <<"-", "0", "1">>)
         ELSE NaN

standardize_date(date_str) ==
    IF isna(date_str) THEN NaN
    ELSE LET parts == split(date_str.s) IN
         IF Len(parts) = 1 THEN NaN
         ELSE IF Len(parts) = 2 THEN Str(date_str.s \o <<"-", "0", "1">>)
         ELSE IF Len(parts) = 3 THEN date_str
         ELSE NaN

(***************************************************************************)
(* pd.to_datetime on one string.  The inputs of this model are ISO-8601    *)
(* dates (YYYY, YYYY-MM, YYYY-MM-DD) and strings that are no date at all   *)
(* (letters, month 13, an empty piece); on these pandas returns the date,  *)
(* a missing month or day being 1, or raises.                              *)
(***************************************************************************)
Digits == {"0", "1", "2", "3", "4", "5", "6", "7", "8", "9"}

DigitVal(c) ==
    CASE c = "0" -> 0 [] c = "1" -> 1 [] c = "2" -> 2 [] c = "3" -> 3
      [] c = "4" -> 4 [] c = "5" -> 5 [] c = "6" -> 6 [] c = "7" -> 7
      [] c = "8" -> 8 [] c = "9" -> 9

IsNumber(p, n) == Len(p) = n /\ \A i \in 1..n : p[i] \in Digits

RECURSIVE IntOf(_)
IntOf(p) == IF p = <<>> THEN 0
            ELSE 10 * IntOf(SubSeq(p, 1, Len(p) - 1)) + DigitVal(p[Len(p)])

IsLeap(y) == y % 4 = 0 /\ (y % 100 # 0 \/ y % 400 = 0)

DaysInMonth(y, m) ==
    IF m = 2 THEN (IF IsLeap(y) THEN 29 ELSE 28)
    ELSE IF m \in {4, 6, 9, 11} THEN 30 ELSE 31

to_datetime(s) ==
    LET parts == split(s)
        n == Len(parts)
        okY == n \in 1..3 /\ IsNumber(parts[1], 4) /\ IntOf(parts[1]) >= 1
        okM == n >= 2 => (IsNumber(parts[2], 2) /\ IntOf(parts[2]) \in 1..12)
        okD == n = 3 => (IsNumber(parts[3], 2) /\ IntOf(parts[3]) >= 1)
    IN  IF ~(okY /\ okM /\ okD) THEN Raise("ValueError")
        ELSE LET y == IntOf(parts[1])
                 m == IF n >= 2 THEN IntOf(parts[2]) ELSE 1
                 d == IF n = 3 THEN IntOf(parts[3]) ELSE 1
             IN  IF d > DaysInMonth(y, m) THEN Raise("ValueError")
                 ELSE Date(y, m, d)

\* date.toordinal: the days from 0001-01-01, which orders and subtracts dates
RECURSIVE DaysBeforeMonth(_, _)
DaysBeforeMonth(y, m) ==
    IF m = 1 THEN 0 ELSE DaysBeforeMonth(y, m - 1) + DaysInMonth(y, m - 1)

toordinal(t) ==
    365 * (t.y - 1) + ((t.y - 1) \div 4) - ((t.y - 1) \div 100)
      + ((t.y - 1) \div 400) + DaysBeforeMonth(t.y, t.m) + t.d

(***************************************************************************)
(* count_citations: the loop over the citations, entry i onwards, with the *)
(* counts so far.  citation['creation'] raises KeyError when the entry has *)
(* no such key, and pd.to_datetime raises on a string that is no date.     *)
(***************************************************************************)
\* the loop with the later-than test of process_citation_counts (>=)
RECURSIVE CountLoopGE(_, _, _, _, _)
CountLoopGE(citations, target_date, i, before_count, after_count) ==
    IF i > Len(citations)
    THEN [k |-> "counts", before |-> before_count, after |-> after_count]
    ELSE IF "creation" \notin DOMAIN citations[i] THEN Raise("KeyError")
    ELSE LET creation_date == standardize_date(citations[i].creation) IN
         IF isna(creation_date)
         THEN CountLoopGE(citations, target_date, i + 1, before_count, after_count)
         ELSE LET ts == to_datetime(creation_date.s) IN
              IF ts.k = "raise" THEN ts
              ELSE IF toordinal(ts) < toordinal(target_date)
              THEN CountLoopGE(citations, target_date, i + 1, before_count + 1, after_count)
              ELSE CountLoopGE(citations, target_date, i + 1, before_count, after_count + 1)

RECURSIVE CountLoop(_, _, _, _, _)
CountLoop(citations, target_date, i, before_count, after_count) ==
    IF i > Len(citations)
    THEN [k |-> "counts", before |-> before_count, after |-> after_count]
    ELSE IF "creation" \notin DOMAIN citations[i] THEN Raise("KeyError")
    ELSE LET creation_date == standardize_date(citations[i].creation) IN
         IF isna(creation_date)
         THEN CountLoop(citations, target_date, i + 1, before_count, after_count)
         ELSE LET ts == to_datetime(creation_date.s) IN
              IF ts.k = "raise" THEN ts
              ELSE IF toordinal(ts) < toordinal(target_date)
              THEN CountLoop(citations, target_date, i + 1, before_count + 1, after_count)
              ELSE IF toordinal(ts) > toordinal(target_date)
              THEN CountLoop(citations, target_date, i + 1, before_count, after_count + 1)
              ELSE CountLoop(citations, target_date, i + 1, before_count, after_count)

count_citations_GE(citations, target_date) ==
    CountLoopGE(citations, target_date, 1, 0, 0)

count_citations(citations, target_date) ==
    CountLoop(citations, target_date, 1, 0, 0)

(***************************************************************************)
(* Date strings used as inputs.                                            *)
(***************************************************************************)
S_empty == <<>>

S_2019 == <<"2", "0", "1", "9">>

S_2020 == <<"2", "0", "2", "0">>

S_2020_06 == <<"2", "0", "2", "0", "-", "0", "6">>

S_2019_01_01 == <<"2", "0", "1", "9", "-", "0", "1", "-", "0", "1">>

S_2019_06_01 == <<"2", "0", "1", "9", "-", "0", "6", "-", "0", "1">>

S_2020_06_10 == <<"2", "0", "2", "0", "-", "0", "6", "-", "1", "0">>

S_2020_06_15 == <<"2", "0", "2", "0", "-", "0", "6", "-", "1", "5">>

S_2021_01_01 == <<"2", "0", "2", "1", "-", "0", "1", "-", "0", "1">>

\* three components, no calendar date
S_2020_13_45 == <<"2", "0", "2", "0", "-", "1", "3", "-", "4", "5">>

\* two components, no calendar date
S_x_x == <<"x", "-", "x">>

\* one component, no calendar date
S_x == <<"x">>

\* a citation entry of the service's response, with its creation field
Entry(v) == [cited |-> "doi", creation |-> v]

\* a citation entry that has no creation field
EntryNoCreation == [cited |-> "doi"]

(***************************************************************************)
(* The input table and the citation service's responses.                   *)
(***************************************************************************)
DOI_X == [k |-> "str", s |-> "10.1/x"]

DOI_Y == [k |-> "str", s |-> "10.1/y"]

Row(doi, o, r) ==
    [OriginalPaperDOI |-> doi, OriginalPaperDate |-> o, RetractionDate |-> r]

\* complete dates and an identifier
RowFull == Row(DOI_X, Str(S_2019_01_01), Str(S_2020_06_15))

\* year-only original date, year-month retraction date
RowYearOriginal == Row(DOI_Y, Str(S_2019), Str(S_2020_06))

\* year-only retraction date
RowYearRetraction == Row(DOI_Y, Str(S_2019_01_01), Str(S_2020))

RowNoDOI == Row(NaN, Str(S_2019_01_01), Str(S_2020_06_15))

RowNoDate == Row(DOI_X, NaN, Str(S_2020_06_15))

RowBadDate == Row(DOI_Y, Str(S_2019_01_01), Str(S_x))

Rows == {RowFull, RowYearOriginal, RowYearRetraction, RowNoDOI, RowNoDate, RowBadDate}

Tables == UNION {[1..m -> Rows] : m \in 0..MaxRows}

ListExample ==
    <<Entry(Str(S_2019_06_01)), Entry(Str(S_2021_01_01)), Entry(Str(S_2020_06_15))>>

ListMid == <<Entry(Str(S_2020_06_10)), Entry(Str(S_2020))>>

ListMalformed == <<Entry(Str(S_2019_06_01)), Entry(Str(S_2020_13_45))>>

HTTP_OK == 200

Json(v) == [k |-> "json", v |-> v]

\* requests.get raised (no connection, timeout, ...)
RespTransportError == [k |-> "exc"]

RespNotFound == [k |-> "http", status |-> 404, body |-> Json(ListExample)]

\* a 200 whose body is not JSON: response.json() raises
RespBadJson == [k |-> "http", status |-> HTTP_OK, body |-> [k |-> "badjson"]]

Resp200(l) == [k |-> "http", status |-> HTTP_OK, body |-> Json(l)]

Responses ==
    {RespTransportError, RespNotFound, RespBadJson}
      \cup {Resp200(l) : l \in {ListExample, ListMid, ListMalformed}}

Return(v) == [k |-> "return", v |-> v]

NoExc == [k |-> "none"]

Exc(e, stage) == [k |-> e, stage |-> stage]

(***************************************************************************)
(* fetch_citations: one GET; every exception of the try block, that of     *)
(* response.json() included, and every status but 200 give the empty list. *)
(***************************************************************************)
\* fetch_citations without its except clause
fetch_citations_NoExcept(doi, response) ==
    IF response.k = "exc" THEN Raise("ConnectionError")
    ELSE IF response.status = HTTP_OK
    THEN (IF response.body.k = "json" THEN Return(response.body.v) ELSE Raise("JSONDecodeError"))
    ELSE Return(<<>>)

fetch_citations(doi, response) ==
    IF response.k = "exc" THEN Return(<<>>)
    ELSE IF response.status = HTTP_OK
    THEN (IF response.body.k = "json" THEN Return(response.body.v) ELSE Return(<<>>))
    ELSE Return(<<>>)

(***************************************************************************)
(* read_csv_robust: detect the encoding, then pd.read_csv with the         *)
(* detected encoding, UTF-8 and ISO-8859-1, each in the except clause of   *)
(* the one before.  Whether a read succeeds is the file system's choice.   *)
(***************************************************************************)
Table(enc, rows) == [k |-> "table", enc |-> enc, rows |-> rows]

DetectEncoding ==
    /\ pc = "detect"
    /\ \E ok \in BOOLEAN :
         IF ok THEN pc' = "read_detected" /\ exc' = exc
         ELSE pc' = "Crashed" /\ exc' = Exc("OSError", "Loading")
    /\ UNCHANGED <<file, attempts, ret, df, dois, cites, fetchLog, output, fnVars>>

\* the first read going on to UTF-8 although it succeeded
TryDetected_NoReturn ==
    /\ pc = "read_detected"
    /\ \E ok \in BOOLEAN :
         /\ attempts' = Append(attempts, [enc |-> "detected", ok |-> ok])
         /\ pc' = "read_utf8"
         /\ ret' = ret
    /\ UNCHANGED <<file, df, dois, cites, fetchLog, output, exc, fnVars>>

TryDetected ==
    /\ pc = "read_detected"
    /\ \E ok \in BOOLEAN :
         /\ attempts' = Append(attempts, [enc |-> "detected", ok |-> ok])
         /\ IF ok THEN ret' = Table("detected", file) /\ pc' = "main_len"
            ELSE ret' = ret /\ pc' = "read_utf8"
    /\ UNCHANGED <<file, df, dois, cites, fetchLog, output, exc, fnVars>>

TryUtf8 ==
    /\ pc = "read_utf8"
    /\ \E ok \in BOOLEAN :
         /\ attempts' = Append(attempts, [enc |-> "utf-8", ok |-> ok])
         /\ IF ok THEN ret' = Table("utf-8", file) /\ pc' = "main_len"
            ELSE ret' = ret /\ pc' = "read_latin1"
    /\ UNCHANGED <<file, df, dois, cites, fetchLog, output, exc, fnVars>>

TryLatin1 ==
    /\ pc = "read_latin1"
    /\ \E ok \in BOOLEAN :
         /\ attempts' = Append(attempts, [enc |-> "ISO-8859-1", ok |-> ok])
         /\ ret' = IF ok THEN Table("ISO-8859-1", file) ELSE None
         /\ pc' = "main_len"
    /\ UNCHANGED <<file, df, dois, cites, fetchLog, output, exc, fnVars>>

(***************************************************************************)
(* main.                                                                   *)
(***************************************************************************)
\* main taking a failed read for an empty table
MainLen_NoneAsEmpty ==
    /\ pc = "main_len"
    /\ df' = IF ret = None THEN <<>> ELSE ret.rows
    /\ pc' = "Cleaning"
    /\ UNCHANGED <<file, attempts, ret, dois, cites, fetchLog, output, exc, fnVars>>

\* df = read_csv_robust(...); total_n = len(df): len(None) raises TypeError
MainLen ==
    /\ pc = "main_len"
    /\ IF ret = None
       THEN pc' = "Crashed" /\ exc' = Exc("TypeError", "Loading") /\ df' = df
       ELSE pc' = "Cleaning" /\ exc' = exc /\ df' = ret.rows
    /\ UNCHANGED <<file, attempts, ret, dois, cites, fetchLog, output, fnVars>>

\* the date columns put through standardize_date before they are parsed
to_datetime_coerce_Standardized(v) ==
    LET n == standardize_date(v) IN
    IF isna(n) THEN NaT
    ELSE LET r == to_datetime(n.s) IN IF r.k = "raise" THEN NaT ELSE r

\* pd.to_datetime(column, format='mixed', errors='coerce').dt.date, one cell
to_datetime_coerce(v) ==
    IF isna(v) THEN NaT
    ELSE LET r == to_datetime(v.s) IN IF r.k = "raise" THEN NaT ELSE r

\* (retract - original).dt.days, NaN when either date is missing
correction_time(original, retract) ==
    IF isna(original) \/ isna(retract) THEN NaN
    ELSE [k |-> "int", v |-> toordinal(retract) - toordinal(original)]

\* the table with its index and the three computed columns
WithDates(rows) ==
    [i \in 1..Len(rows) |->
        LET original == to_datetime_coerce(rows[i].OriginalPaperDate)
            retract == to_datetime_coerce(rows[i].RetractionDate)
        IN  rows[i] @@ [idx |-> i, original |-> original, retract |-> retract,
                        correction_time |-> correction_time(original, retract)]]

HasCorrectionTime(r) == ~isna(r.correction_time)

HasDOI(r) == ~isna(r.OriginalPaperDOI)

\* Cleaning that keeps the rows without an identifier
Clean_KeepNoDOI ==
    /\ pc = "Cleaning"
    /\ LET kept == SelectSeq(WithDates(df), HasCorrectionTime)
       IN  /\ df' = kept
           /\ dois' = [j \in 1..Len(kept) |-> kept[j].OriginalPaperDOI]
    /\ cites' = <<>>
    /\ pc' = "Fetching"
    /\ UNCHANGED <<file, attempts, ret, fetchLog, output, exc, fnVars>>

Clean ==
    /\ pc = "Cleaning"
    /\ LET kept == SelectSeq(SelectSeq(WithDates(df), HasCorrectionTime), HasDOI)
       IN  /\ df' = kept
           /\ dois' = [j \in 1..Len(kept) |-> kept[j].OriginalPaperDOI]
    /\ cites' = <<>>
    /\ pc' = "Fetching"
    /\ UNCHANGED <<file, attempts, ret, fetchLog, output, exc, fnVars>>

\* one pass of the loop: cites.append(fetch_citations(dois[i]))
FetchStep ==
    /\ pc = "Fetching"
    /\ Len(cites) < Len(dois)
    /\ \E response \in Responses :
         LET doi == dois[Len(cites) + 1]
             r == fetch_citations(doi, response)
         IN  /\ fetchLog' = Append(fetchLog, [doi |-> doi, response |-> response])
             /\ IF r.k = "raise"
                THEN pc' = "Crashed" /\ exc' = Exc(r.exc, "Fetching") /\ cites' = cites
                ELSE pc' = pc /\ exc' = exc /\ cites' = Append(cites, r.v)
    /\ UNCHANGED <<file, attempts, ret, df, dois, output, fnVars>>

\* the fetched lists attached to the rows back to front
AttachCites_Reversed ==
    /\ pc = "Fetching"
    /\ Len(cites) = Len(dois)
    /\ df' = [j \in 1..Len(df) |-> df[j] @@ [cites |-> cites[Len(df) + 1 - j]]]
    /\ pc' = "Aggregating"
    /\ UNCHANGED <<file, attempts, ret, dois, cites, fetchLog, output, exc, fnVars>>

\* df['cites'] = [i for i in cites]: by position
AttachCites ==
    /\ pc = "Fetching"
    /\ Len(cites) = Len(dois)
    /\ df' = [j \in 1..Len(df) |-> df[j] @@ [cites |-> cites[j]]]
    /\ pc' = "Aggregating"
    /\ UNCHANGED <<file, attempts, ret, dois, cites, fetchLog, output, exc, fnVars>>

\* df.apply(count_citations(row['cites'], row['retract'])) and the two count
\* columns; an exception of any row's call leaves main
Aggregate ==
    /\ pc = "Aggregating"
    /\ LET citation_counts ==
               [j \in 1..Len(df) |-> count_citations(df[j].cites, df[j].retract)]
           raised == {j \in 1..Len(df) : citation_counts[j].k = "raise"}
       IN  IF raised # {}
           THEN LET first == CHOOSE j \in raised : \A h \in raised : j <= h
                IN  /\ pc' = "Crashed"
                    /\ exc' = Exc(citation_counts[first].exc, "Aggregating")
                    /\ df' = df
           ELSE /\ pc' = "Writing"
                /\ exc' = exc
                /\ df' = [j \in 1..Len(df) |->
                            df[j] @@ [before_count |-> citation_counts[j].before,
                                      after_count |-> citation_counts[j].after]]
    /\ UNCHANGED <<file, attempts, ret, dois, cites, fetchLog, output, fnVars>>

\* df.to_json(...): the whole table, or an exception and no output
Write ==
    /\ pc = "Writing"
    /\ \E ok \in BOOLEAN :
         IF ok THEN pc' = "Done" /\ output' = [k |-> "file", records |-> df] /\ exc' = exc
         ELSE pc' = "Crashed" /\ output' = output /\ exc' = Exc("OSError", "Writing")
    /\ UNCHANGED <<file, attempts, ret, df, dois, cites, fetchLog, fnVars>>

\* a row that Cleaning keeps
Survives(row) ==
    /\ ~isna(to_datetime_coerce(row.OriginalPaperDate))
    /\ ~isna(to_datetime_coerce(row.RetractionDate))
    /\ ~isna(row.OriginalPaperDOI)

\* The input files: tables of which at least one row survives Cleaning (what
\* DataFrame.apply returns on a table without rows is left out of the model).
Files == {t \in Tables : \E i \in 1..Len(t) : Survives(t[i])}

Init ==
    /\ pc = "detect"
    /\ file \in Files
    /\ attempts = <<>>
    /\ ret = Pending
    /\ df = <<>>
    /\ dois = <<>>
    /\ cites = <<>>
    /\ fetchLog = <<>>
    /\ output = None
    /\ exc = NoExc
    /\ fn_arg = None
    /\ fn_target = None
    /\ fn_res = Pending

Next ==
    \/ DetectEncoding
    \/ TryDetected
    \/ TryUtf8
    \/ TryLatin1
    \/ MainLen
    \/ Clean
    \/ FetchStep
    \/ AttachCites
    \/ Aggregate
    \/ Write

Spec == Init /\ [][Next]_vars

(***************************************************************************)
(* The functions called on their own: the inputs are drawn in the initial  *)
(* state and one call is made.                                             *)
(***************************************************************************)
Alphabet == {"2", "-", "x"}

StringsUpTo(n) == UNION {[1..m -> Alphabet] : m \in 0..n}

DateArgs == {NaN, None} \cup {Str(s) : s \in StringsUpTo(MaxLen)}

Entries ==
    {Entry(Str(s)) : s \in {S_empty, S_2020, S_2020_06, S_2019_06_01,
                            S_2020_06_15, S_2021_01_01, S_2020_13_45, S_x_x}}
      \cup {Entry(None), EntryNoCreation}

CiteLists == UNION {[1..m -> Entries] : m \in 0..MaxCites}

Targets == {Date(2020, 6, 15), Date(2020, 6, 1)}

MainIdle ==
    /\ pc = "idle"
    /\ file = <<>>
    /\ attempts = <<>>
    /\ ret = Pending
    /\ df = <<>>
    /\ dois = <<>>
    /\ cites = <<>>
    /\ fetchLog = <<>>
    /\ output = None
    /\ exc = NoExc

InitDate ==
    /\ MainIdle
    /\ fn_arg \in DateArgs
    /\ fn_target = None
    /\ fn_res = Pending

CallStandardizeDate ==
    /\ fn_res = Pending
    /\ fn_res' = standardize_date(fn_arg)
    /\ UNCHANGED <<mainVars, fn_arg, fn_target>>

NextDate == CallStandardizeDate

SpecDate == InitDate /\ [][NextDate]_vars

InitCount ==
    /\ MainIdle
    /\ fn_arg \in CiteLists
    /\ fn_target \in Targets
    /\ fn_res = Pending

CallCountCitations ==
    /\ fn_res = Pending
    /\ fn_res' = count_citations(fn_arg, fn_target)
    /\ UNCHANGED <<mainVars, fn_arg, fn_target>>

NextCount == CallCountCitations

SpecCount == InitCount /\ [][NextCount]_vars

(***************************************************************************)
(* Claims about standardize_date and count_citations.                      *)
(***************************************************************************)
\* the number of '-'-separated components of a string
Components(s) == 1 + Cardinality({i \in 1..Len(s) : s[i] = "-"})

\* C2: standardize_date maps its input by the number of '-'-separated
\* components: a missing or empty value and a single component give unknown,
\* two components give the input followed by the first day of the month,
\* three components give the input unchanged, any other number gives unknown.
C2_ByComponentCount ==
    fn_res # Pending =>
        IF isna(fn_arg) THEN fn_res = NaN
        ELSE LET n == Components(fn_arg.s) IN
             /\ fn_arg.s = <<>> => fn_res = NaN
             /\ n = 1 => fn_res = NaN
             /\ n = 2 => fn_res = Str(fn_arg.s \o <<"-", "0", "1">>)
             /\ n = 3 => fn_res = fn_arg
             /\ n > 3 => fn_res = NaN

\* a year-month string was anchored to the first day of its month
C2_Witness ==
    /\ fn_arg = Str(<<"2", "-", "2">>)
    /\ fn_res = Str(<<"2", "-", "2", "-", "0", "1">>)

\* the normalized creation date of an entry under the normaliser's rules:
\* a calendar date, unknown, or no date at all (a raise)
NormalizedDate(e) ==
    IF "creation" \notin DOMAIN e THEN Raise("KeyError")
    ELSE IF isna(e.creation) THEN NaN
    ELSE LET n == Components(e.creation.s) IN
         IF n = 2 THEN to_datetime(e.creation.s \o <<"-", "0", "1">>)
         ELSE IF n = 3 THEN to_datetime(e.creation.s)
         ELSE NaN

Earlier(e, t) ==
    NormalizedDate(e).k = "date" /\ toordinal(NormalizedDate(e)) < toordinal(t)

Later(e, t) ==
    NormalizedDate(e).k = "date" /\ toordinal(NormalizedDate(e)) > toordinal(t)

ExpectedCounts(c, t) ==
    [k |-> "counts",
     before |-> Cardinality({i \in 1..Len(c) : Earlier(c[i], t)}),
     after |-> Cardinality({i \in 1..Len(c) : Later(c[i], t)})]

\* every entry's creation date is a calendar date or unknown
AllDatesOrUnknown(c) == \A i \in 1..Len(c) : NormalizedDate(c[i]).k # "raise"

\* C1: count_citations returns before = the number of entries whose
\* normalized creation date is known and strictly earlier than the target,
\* after = the number known and strictly later; an entry dated on the target
\* and an entry of unknown date are in neither bucket, and the empty
\* sequence gives {before: 0, after: 0}.  It returns for every sequence whose
\* entries are calendar dates or unknown, and whatever it returns is this pair.
C1_StrictPartition ==
    fn_res # Pending =>
        /\ AllDatesOrUnknown(fn_arg) => fn_res = ExpectedCounts(fn_arg, fn_target)
        /\ fn_res.k = "counts" => fn_res = ExpectedCounts(fn_arg, fn_target)
        /\ fn_arg = <<>> => fn_res = [k |-> "counts", before |-> 0, after |-> 0]

\* an earlier entry, an entry on the target date and a year-only entry were
\* partitioned: one before, none after
C1_Witness ==
    /\ fn_arg = <<Entry(Str(S_2019_06_01)), Entry(Str(S_2020_06_15)), Entry(Str(S_2020))>>
    /\ fn_target = Date(2020, 6, 15)
    /\ fn_res = [k |-> "counts", before |-> 1, after |-> 0]

\* C3: count_citations never fails: for every sequence of entries, entries
\* with an absent, empty or malformed creation date included, it raises
\* nothing and returns the pair that counts the parseable entries and leaves
\* the unparseable ones out of both buckets.
C3_NeverFails ==
    fn_res # Pending =>
        /\ fn_res.k = "counts"
        /\ fn_res = ExpectedCounts(fn_arg, fn_target)

(***************************************************************************)
(* Claims about read_csv_robust and main.                                  *)
(***************************************************************************)
\* a cell that holds a calendar date
Parseable(v) == ~isna(v) /\ to_datetime(v.s).k = "date"

\* a cell that holds a year and nothing else
YearOnly(v) == ~isna(v) /\ IsNumber(v.s, 4)

\* a cell that holds a year and a month
YearMonth(v) == ~isna(v) /\ Components(v.s) = 2 /\ Parseable(v)

\* the correction time of a row of the file can be computed
Computable(row) == Parseable(row.OriginalPaperDate) /\ Parseable(row.RetractionDate)

\* the rows of the file that belong in the output, in table order
Surviving ==
    SelectSeq([i \in 1..Len(file) |-> i],
              LAMBDA i : Computable(file[i]) /\ ~isna(file[i].OriginalPaperDOI))

Cleaned == pc \in {"Fetching", "Aggregating", "Writing", "Done"}

Kept(i) == \E j \in 1..Len(df) : df[j].idx = i

C5_OutputIsSurvivors ==
    /\ pc # "Done" => output = None
    /\ pc = "Done" =>
         /\ output.k = "file"
         /\ [j \in 1..Len(output.records) |-> output.records[j].idx] = Surviving
         /\ \A j \in 1..Len(output.records) :
              {"before_count", "after_count"} \subseteq DOMAIN output.records[j]

\* an output was written from a table of which a row without identifier and
\* a row without computable correction time were dropped
C5_Witness ==
    /\ pc = "Done"
    /\ Len(file) > Len(output.records)
    /\ Len(output.records) >= 1
    /\ \E i \in 1..Len(file) : isna(file[i].OriginalPaperDOI) \/ ~Computable(file[i])

\* a fetch that met a transport error or a status other than 200
FetchFailed(response) == response.k = "exc" \/ response.status # HTTP_OK

\* C6: fetch_citations is best-effort: on a transport error or a non-200
\* response it returns the empty sequence and raises nothing, the loop goes
\* on, and the record's counts are before_count = 0 and after_count = 0.
C6_BestEffortFetch ==
    /\ exc.k # "none" => exc.stage # "Fetching"
    /\ \A j \in 1..Len(fetchLog) :
         FetchFailed(fetchLog[j].response) =>
             /\ j <= Len(cites)
             /\ cites[j] = <<>>
             /\ pc \in {"Writing", "Done"} =>
                   df[j].before_count = 0 /\ df[j].after_count = 0

\* a run is done in which the first fetch met a transport error and a later
\* fetch was made
C6_Witness ==
    /\ pc = "Done"
    /\ Len(fetchLog) >= 2
    /\ fetchLog[1].response = RespTransportError
    /\ output.records[1].before_count = 0

EncodingOrder == <<"detected", "utf-8", "ISO-8859-1">>

AllFailed == Len(attempts) = 3 /\ \A j \in 1..3 : ~attempts[j].ok

\* C7: read_csv_robust tries the detected encoding, UTF-8 and ISO-8859-1 in
\* this order, a later one only after every earlier one failed; the table of
\* the first success is returned with no further attempt, and no table is
\* returned exactly when all three fail.
C7_FallbackOrder ==
    /\ Len(attempts) <= 3
    /\ \A j \in 1..Len(attempts) :
         /\ attempts[j].enc = EncodingOrder[j]
         /\ j < Len(attempts) => ~attempts[j].ok
    /\ (\E j \in 1..Len(attempts) : attempts[j].ok) <=> ret.k = "table"
    /\ ret.k = "table" => ret = Table(attempts[Len(attempts)].enc, file)
    /\ ret = None <=> AllFailed

\* the table was returned by the UTF-8 read after the detected encoding failed
C7_Witness ==
    /\ Len(attempts) = 2
    /\ ~attempts[1].ok
    /\ ret = Table("utf-8", file)

\* C8: when read_csv_robust reports failure, main halts in Loading: nothing
\* is cleaned, no citation is fetched and no output is written.
C8_ReadFailureHalts ==
    AllFailed =>
        /\ ret = None
        /\ pc \in {"main_len", "Crashed"}
        /\ pc = "Crashed" => exc.stage = "Loading"
        /\ df = <<>>
        /\ fetchLog = <<>>
        /\ output = None

\* main has halted on the failure of all three reads
C8_Witness ==
    /\ AllFailed
    /\ pc = "Crashed"
    /\ exc = Exc("TypeError", "Loading")

\* C9: only whole-file read and write failures terminate a run: whatever the
\* fetches return and whatever creation dates the entries carry, a run whose
\* file was read halts only on the failure of the write.
C9_OnlyFileFailuresTerminate ==
    pc = "Crashed" => exc.stage \in {"Loading", "Writing"}

\* what a best-effort fetch hands on for a response
Body(response) ==
    IF ~FetchFailed(response) /\ response.body.k = "json" THEN response.body.v ELSE <<>>

\* C10: fetch_citations is called once for each record that survived
\* Cleaning, in table order; the i-th list is attached to the i-th surviving
\* record, and its counts are those of the citations fetched for its own
\* identifier against its own retraction date.
C10_OneFetchPerRecordInOrder ==
    LET surviving == Surviving IN
    /\ Len(fetchLog) <= Len(surviving)
    /\ \A j \in 1..Len(fetchLog) :
         fetchLog[j].doi = file[surviving[j]].OriginalPaperDOI
    /\ pc \in {"Aggregating", "Writing", "Done"} =>
         /\ Len(fetchLog) = Len(surviving)
         /\ \A j \in 1..Len(df) :
              /\ df[j].idx = surviving[j]
              /\ df[j].cites = Body(fetchLog[j].response)
    /\ pc \in {"Writing", "Done"} =>
         \A j \in 1..Len(df) :
            [k |-> "counts", before |-> df[j].before_count, after |-> df[j].after_count]
               = ExpectedCounts(Body(fetchLog[j].response),
                                to_datetime(file[surviving[j]].RetractionDate.s))

\* two records with different identifiers and retraction dates got different
\* lists, and the citation dated between the two retraction dates counts
\* after the one and not after the other
C10_Witness ==
    /\ pc = "Done"
    /\ file = <<RowYearOriginal, RowFull>>
    /\ fetchLog = <<[doi |-> DOI_Y, response |-> Resp200(ListMid)],
                    [doi |-> DOI_X, response |-> Resp200(ListExample)]>>
    /\ output.records[1].after_count = 1
    /\ output.records[2].before_count = 1

====
